---- MODULE Spec2Model ----
(***************************************************************************)
(* SyntheticBanditDatasetWithActionEmbeds (obp/dataset/synthetic_embed.py) *)
(* as a state machine: dataset instances are constructed (__post_init__)   *)
(* and then asked for batches (obtain_batch_bandit_feedback).              *)
(*                                                                         *)
(* Arrays are functions over 0..n-1, as numpy indexes them.                *)
(* A probability is an exact fraction <<num, den>> with den > 0; every     *)
(* other float (context, latent parameter, expected reward, logit) is an   *)
(* integer count of 1/Unit.  Floating point rounding, underflow of exp and *)
(* non-finite values are outside the model.                                *)
(* A numpy generator is its state, a number modulo 16; one draw advances   *)
(* it by one step, and the value drawn is a function of the new state.     *)
(* behavior_policy_function is left at its default, None.                  *)
(***************************************************************************)
EXTENDS Integers, Sequences, FiniteSets, TLC

\* ---------------------------------------------------------------- bounds
MaxActions == 3
MaxCatDim == 2
MaxRounds == 2
MaxCalls == 2
MaxSeed == 1
Unit == 4

\* ------------------------------------------------ configuration defaults
dim_context == 1
p_e_a_param_std == 1
reward_std == 1
n_cat_per_dim == 2
latent_param_mat_dim == 1

Insts == {1, 2}
Betas == {0, 1}
RewardTypes == {"binary", "continuous"}

\* the values tried for the sizes: the smallest the code accepts and the bound
ActionCounts == {2, MaxActions}
CatDims == {1, MaxCatDim}
Rounds == {1, MaxRounds}
Seeds == {0, MaxSeed}
\* the counts of unobserved and of irrelevant dimensions: none, one, all
HiddenDims == {0, 1, MaxCatDim}

VARIABLES self, pc, feedback, frames

vars == <<self, pc, feedback, frames>>

\* ------------------------------------------------------------ arithmetic
Ix(n) == 0 .. (n - 1)

\* an array with all its entries computed, once
array(f) == IF f = f THEN f ELSE f

RECURSIVE SumTo(_, _)
SumTo(f, n) == IF n = 0 THEN 0 ELSE f[n - 1] + SumTo(f, n - 1)

RECURSIVE Pow2(_)
Pow2(e) == IF e <= 0 THEN 1 ELSE 2 * Pow2(e - 1)

MinOf(f, n) == CHOOSE v \in {f[j] : j \in Ix(n)} : \A j \in Ix(n) : v <= f[j]

Zero == <<0, 1>>

RatAdd(p, q) ==
    IF p[1] = 0 THEN q
    ELSE IF q[1] = 0 THEN p
    ELSE IF p[2] = q[2] THEN <<p[1] + q[1], p[2]>>
    ELSE <<p[1] * q[2] + q[1] * p[2], p[2] * q[2]>>

RECURSIVE RatSumTo(_, _)
RatSumTo(f, n) == IF n = 0 THEN Zero ELSE RatAdd(RatSumTo(f, n - 1), f[n - 1])

RatGreater(p, q) == p[1] * q[2] > q[1] * p[2]

IsOne(p) == p[1] = p[2]

\* ------------------------------------------------------- numpy generator
random_step(s) == (5 * s + 1) % 16

RECURSIVE advance(_, _)
advance(s, n) ==
    IF n = 0 THEN s
    ELSE LET t == random_step(s) IN IF t >= 0 THEN advance(t, n - 1) ELSE t

\* the n states after s, in the order they are drawn
draws(s, n) == array([j \in Ix(n) |-> advance(s, j + 1)])

check_random_state(seed) == (7 * seed + 3) % 16

normal_value(x) == (x % 5) - 2

uniform_value(x) == <<x, 16>>

gamma_value(x, shape) == 1 + ((x + shape[1]) % 3)

gumbel_value(x) == x

\* ----------------------------------------------------------- obp.utils
\* softmax along one axis: exp(x - max) / sum, here with base 2 and both
\* terms multiplied by 2^(max - min) so that they stay whole numbers
softmax(x, n) ==
    LET lo == MinOf(x, n)
        num == array([j \in Ix(n) |-> Pow2(x[j] - lo)])
        den == SumTo(num, n)
    IN  array([j \in Ix(n) |-> <<num[j], den>>])

\* flg = cumsum(dist) > u; flg.argmax(): the first True, 0 when there is none
argmax_flg(dist, n, u) ==
    LET flg == {j \in Ix(n) : RatGreater(RatSumTo(dist, j + 1), u)}
    IN  IF flg = {} THEN 0 ELSE CHOOSE j \in flg : \A k \in flg : j <= k

sample_action_fast(action_dist, n_rows, n_cols, random_state) ==
    LET uniform_rvs == draws(check_random_state(random_state), n_rows)
    IN  array([r \in Ix(n_rows) |->
            argmax_flg(action_dist[r], n_cols, uniform_value(uniform_rvs[r]))])

\* ------------------------------------------------------- reward functions
\* obp.dataset.synthetic: the expected reward of each category of one
\* embedding dimension in each round, a function of the context, of the
\* category's latent parameters and of coefficients drawn from random_state
reward_score(context, action_context, random_state, r, k) ==
    LET coef == normal_value(random_step(check_random_state(random_state)))
    IN  SumTo([j \in Ix(dim_context) |-> context[r][j]], dim_context)
            * SumTo([l \in Ix(latent_param_mat_dim) |-> action_context[k][l]],
                    latent_param_mat_dim)
        + coef

logistic_reward_function(context, action_context, random_state, n_rounds) ==
    array([r \in Ix(n_rounds) |-> [k \in Ix(n_cat_per_dim) |->
        LET x == reward_score(context, action_context, random_state, r, k)
                    + (Unit \div 2)
        IN  IF x < 0 THEN 0 ELSE IF x > Unit THEN Unit ELSE x]])

linear_reward_function(context, action_context, random_state, n_rounds) ==
    array([r \in Ix(n_rounds) |-> [k \in Ix(n_cat_per_dim) |->
        reward_score(context, action_context, random_state, r, k)]])

\* ------------------------------------------------------------ construction
None == <<>>

\* the fields a caller passes; the checks of the base class
\* (n_actions >= 2, 0 <= n_deficient_actions < n_actions) hold of all of them
Configs ==
    { c \in {[n_actions |-> a, beta |-> b, reward_type |-> t,
       n_cat_dim |-> D, n_unobserved_cat_dim |-> U, n_irrelevant_cat_dim |-> I,
       n_deficient_actions |-> k, random_state |-> 0,
       random_ |-> None, latent_cat_param |-> None, p_e_a |-> None,
       action_context_reg |-> None] :
        a \in ActionCounts, b \in Betas, t \in RewardTypes,
        D \in CatDims, U \in HiddenDims, I \in HiddenDims,
        k \in 0 .. (MaxActions - 1) } :
      c.n_deficient_actions <= c.n_actions - 1 }

\* check_scalar of the embedding fields
check_scalars(o) ==
    /\ n_cat_per_dim >= 1
    /\ latent_param_mat_dim >= 1
    /\ o.n_cat_dim >= 1
    /\ p_e_a_param_std >= 0
    /\ o.n_unobserved_cat_dim >= 0 /\ o.n_unobserved_cat_dim <= o.n_cat_dim
    /\ o.n_irrelevant_cat_dim >= 0 /\ o.n_irrelevant_cat_dim <= o.n_cat_dim

\* SyntheticBanditDataset.__post_init__: the instance's own generator
base_post_init(o) == [o EXCEPT !.random_ = check_random_state(o.random_state)]

reserve_slot(o) ==
    [o EXCEPT !.n_cat_dim = @ + 1,
              !.n_unobserved_cat_dim = @ + 1,
              !.n_irrelevant_cat_dim = @ + 1]

action_context_seed(o, d) == o.random_state + d

define_action_embed(o) ==
    LET A == o.n_actions
        K == n_cat_per_dim
        L == latent_param_mat_dim
        D == o.n_cat_dim
        z1 == draws(o.random_, D * K * L)
        s1 == advance(o.random_, D * K * L)
        z2 == draws(s1, A * K * D)
        s2 == advance(s1, A * K * D)
        latent == array([d \in Ix(D) |-> [k \in Ix(K) |-> [l \in Ix(L) |->
                      normal_value(z1[d * K * L + k * L + l])]]])
        logit == array([a \in Ix(A) |-> [k \in Ix(K) |-> [d \in Ix(D) |->
                      p_e_a_param_std * normal_value(z2[a * K * D + k * D + d])]]])
        row == array([a \in Ix(A) |-> [d \in Ix(D) |->
                      softmax(array([k \in Ix(K) |-> logit[a][k][d]]), K)]])
        pea == array([a \in Ix(A) |-> [k \in Ix(K) |-> [d \in Ix(D) |-> row[a][d][k]]]])
        col == array([d \in Ix(D) |->
                  sample_action_fast([a \in Ix(A) |-> row[a][d]], A, K,
                                     action_context_seed(o, d))])
    IN  [o EXCEPT !.random_ = s2,
                  !.latent_cat_param = latent,
                  !.p_e_a = pea,
                  !.action_context_reg =
                      [a \in Ix(A) |-> [d \in Ix(D) |-> col[d][a]]]]

post_init(i) ==
    /\ pc[i] = "new"
    /\ IF check_scalars(self[i])
       THEN /\ self' = [self EXCEPT
                          ![i] = define_action_embed(reserve_slot(base_post_init(@)))]
            /\ pc' = [pc EXCEPT ![i] = "ready"]
       ELSE /\ pc' = [pc EXCEPT ![i] = "failed"]
            /\ UNCHANGED self
    /\ UNCHANGED <<feedback, frames>>

\* --------------------------------------------------------- batch generation
slice_from(x, m, n) == [j \in Ix(n - m) |-> x[m + j]]

\* sum of values[j] * probs[j] in units of 1/Unit; the non-zero entries of
\* probs share one denominator
dot(values, probs, n) ==
    LET den == CHOOSE v \in {probs[j][2] : j \in Ix(n)} \cup {1} :
                   \A j \in Ix(n) : probs[j][2] <= v
    IN  SumTo([j \in Ix(n) |-> values[j] * probs[j][1]], n) \div den

contexts_of(s, n_rounds) ==
    LET z == draws(s, n_rounds * dim_context)
    IN  array([r \in Ix(n_rounds) |-> [j \in Ix(dim_context) |->
            normal_value(z[r * dim_context + j])]])

\* numpy dirichlet: one gamma variate per entry of alpha, divided by their sum
dirichlet(alpha, s, m) ==
    LET z == draws(s, m)
        g == array([j \in Ix(m) |-> gamma_value(z[j], alpha[j])])
        acc == SumTo(g, m)
    IN  array([j \in Ix(m) |-> <<g[j], acc>>])

\* a variant of importance_offset that forgets the reserved slot
importance_offset_unreserved(o) == o.n_irrelevant_cat_dim - 1

importance_offset(o) == o.n_irrelevant_cat_dim

cat_dim_importance_of(o, s) ==
    LET m == o.n_cat_dim - o.n_irrelevant_cat_dim
        u == draws(s, m)
        alpha == [j \in Ix(m) |-> uniform_value(u[j])]
        w == dirichlet(alpha, advance(s, m), m)
    IN  array([d \in Ix(o.n_cat_dim) |->
            IF d < importance_offset(o) \/ d - importance_offset(o) >= m
            THEN Zero ELSE w[d - importance_offset(o)]])

reward_seed(o, d) == o.random_state + d

q_x_e_of(o, contexts, n_rounds) ==
    LET per_d == array([d \in Ix(o.n_cat_dim) |->
            IF o.reward_type = "binary"
            THEN logistic_reward_function(contexts, o.latent_cat_param[d],
                                          reward_seed(o, d), n_rounds)
            ELSE linear_reward_function(contexts, o.latent_cat_param[d],
                                        reward_seed(o, d), n_rounds)])
    IN  array([r \in Ix(n_rounds) |-> [k \in Ix(n_cat_per_dim) |->
            [d \in Ix(o.n_cat_dim) |-> per_d[d][r][k]]]])

\* q_x_a[:, :, d] = q_x_e[:, :, d] @ p_e_a[:, :, d].T
q_x_a_d_of(o, q_x_e, n_rounds) ==
    array([r \in Ix(n_rounds) |-> [a \in Ix(o.n_actions) |-> [d \in Ix(o.n_cat_dim) |->
        dot([k \in Ix(n_cat_per_dim) |-> q_x_e[r][k][d]],
            [k \in Ix(n_cat_per_dim) |-> o.p_e_a[a][k][d]], n_cat_per_dim)]]])

\* q_x_a = (q_x_a * cat_dim_importance).sum(2)
q_x_a_of(o, q_x_a_d, importance, n_rounds) ==
    array([r \in Ix(n_rounds) |-> [a \in Ix(o.n_actions) |->
        dot(q_x_a_d[r][a], importance, o.n_cat_dim)]])

gumbel_of(o, s, n_rounds) ==
    LET z == draws(s, n_rounds * o.n_actions)
    IN  array([r \in Ix(n_rounds) |-> [a \in Ix(o.n_actions) |->
            gumbel_value(z[r * o.n_actions + a])]])

\* a variant of n_supported_actions_of that counts one action too many
n_supported_actions_plus_one(o) == o.n_actions - o.n_deficient_actions + 1

n_supported_actions_of(o) == o.n_actions - o.n_deficient_actions

\* a variant of supported_actions_of that ranks the first round's draws only
supported_actions_once(o, gumbel, n_rounds) ==
    array([r \in Ix(n_rounds) |-> [j \in Ix(n_supported_actions_of(o)) |->
        CHOOSE a \in Ix(o.n_actions) :
            Cardinality({b \in Ix(o.n_actions) : gumbel[0][b] > gumbel[0][a]}) = j]])

\* argsort(gumbel, axis=1)[:, ::-1][:, :n_supported_actions]
supported_actions_of(o, gumbel, n_rounds) ==
    array([r \in Ix(n_rounds) |-> [j \in Ix(n_supported_actions_of(o)) |->
        CHOOSE a \in Ix(o.n_actions) :
            Cardinality({b \in Ix(o.n_actions) : gumbel[r][b] > gumbel[r][a]}) = j]])

\* a variant of pi_b_of that takes the softmax over all actions and then
\* clears the unsupported ones
pi_b_unnormalised(o, pi_b_logits, supported_actions, n_rounds) ==
    LET full == array([r \in Ix(n_rounds) |->
                    softmax(array([a \in Ix(o.n_actions) |-> o.beta * pi_b_logits[r][a]]),
                            o.n_actions)])
    IN  [r \in Ix(n_rounds) |-> [a \in Ix(o.n_actions) |->
            IF o.n_deficient_actions > 0
               /\ ~ \E j \in Ix(n_supported_actions_of(o)) : supported_actions[r][j] = a
            THEN Zero ELSE full[r][a]]]

pi_b_of(o, pi_b_logits, supported_actions, n_rounds) ==
    IF o.n_deficient_actions > 0
    THEN LET ns == n_supported_actions_of(o)
             sm == array([r \in Ix(n_rounds) |->
                      softmax(array([j \in Ix(ns) |->
                                  o.beta * pi_b_logits[r][supported_actions[r][j]]]), ns)])
         IN  array([r \in Ix(n_rounds) |-> [a \in Ix(o.n_actions) |->
                 IF \E j \in Ix(ns) : supported_actions[r][j] = a
                 THEN sm[r][CHOOSE j \in Ix(ns) : supported_actions[r][j] = a]
                 ELSE Zero]])
    ELSE array([r \in Ix(n_rounds) |->
             softmax(array([a \in Ix(o.n_actions) |-> o.beta * pi_b_logits[r][a]]),
                     o.n_actions)])

\* a variant of action_seed that follows a generator shared by the whole
\* process, which every batch of every instance advances
action_seed_shared(o) ==
    o.random_state + Len(feedback[1]) + Len(feedback[2])

action_seed(o) == o.random_state

\* a variant of actions_of that samples from the softmax over all actions
actions_of_unrestricted(o, pi_b, pi_b_logits, n_rounds) ==
    sample_action_fast(
        [r \in Ix(n_rounds) |->
            softmax(array([a \in Ix(o.n_actions) |-> o.beta * pi_b_logits[r][a]]),
                    o.n_actions)],
        n_rounds, o.n_actions, action_seed(o))

actions_of(o, pi_b, pi_b_logits, n_rounds) ==
    sample_action_fast(pi_b, n_rounds, o.n_actions, action_seed(o))

\* a variant of embed_seed that offsets the instance's seed, as the other
\* per-dimension steps do
embed_seed_offset(o, d) == o.random_state + d

embed_seed(o, d) == d

action_embed_of(o, actions, n_rounds) ==
    LET col == array([d \in Ix(o.n_cat_dim) |->
            sample_action_fast(
                [r \in Ix(n_rounds) |-> [k \in Ix(n_cat_per_dim) |->
                    o.p_e_a[actions[r]][k][d]]],
                n_rounds, n_cat_per_dim, embed_seed(o, d))])
    IN  array([r \in Ix(n_rounds) |-> [d \in Ix(o.n_cat_dim) |-> col[d][r]]])

expected_rewards_factual_of(o, q_x_e, action_embed, importance, n_rounds) ==
    array([r \in Ix(n_rounds) |->
        dot([d \in Ix(o.n_cat_dim) |-> q_x_e[r][action_embed[r][d]][d]],
            importance, o.n_cat_dim)])

rewards_of(o, s, expected_rewards_factual, n_rounds) ==
    LET z == draws(s, n_rounds)
    IN  [r \in Ix(n_rounds) |->
            IF o.reward_type = "binary"
            THEN (IF RatGreater(<<expected_rewards_factual[r], Unit>>,
                                uniform_value(z[r])) THEN 1 ELSE 0)
            ELSE expected_rewards_factual[r] + reward_std * normal_value(z[r])]

\* the local variables of one call when it returns; random_ is the state
\* in which the call leaves the instance's generator
frame_of(o, n_rounds) ==
    LET s0 == o.random_
        contexts == contexts_of(s0, n_rounds)
        s1 == advance(s0, n_rounds * dim_context)
        importance == cat_dim_importance_of(o, s1)
        s2 == advance(s1, 2 * (o.n_cat_dim - o.n_irrelevant_cat_dim))
        q_x_e == q_x_e_of(o, contexts, n_rounds)
        q_x_a_d == q_x_a_d_of(o, q_x_e, n_rounds)
        q_x_a == q_x_a_of(o, q_x_a_d, importance, n_rounds)
        deficient == o.n_deficient_actions > 0
        gumbel == IF deficient THEN gumbel_of(o, s2, n_rounds) ELSE None
        s3 == IF deficient THEN advance(s2, n_rounds * o.n_actions) ELSE s2
        supported == IF deficient THEN supported_actions_of(o, gumbel, n_rounds)
                     ELSE None
        pi_b == pi_b_of(o, q_x_a, supported, n_rounds)
        actions == actions_of(o, pi_b, q_x_a, n_rounds)
        action_embed == action_embed_of(o, actions, n_rounds)
        factual == expected_rewards_factual_of(o, q_x_e, action_embed,
                                               importance, n_rounds)
    IN  [n_rounds |-> n_rounds,
         contexts |-> contexts,
         cat_dim_importance |-> importance,
         q_x_e |-> q_x_e,
         q_x_a_d |-> q_x_a_d,
         q_x_a |-> q_x_a,
         gumbel |-> gumbel,
         supported_actions |-> supported,
         pi_b |-> pi_b,
         action_rvs |-> draws(check_random_state(action_seed(o)), n_rounds),
         actions |-> actions,
         embed_rvs |-> [d \in Ix(o.n_cat_dim) |->
                           draws(check_random_state(embed_seed(o, d)), n_rounds)],
         action_embed |-> action_embed,
         expected_rewards_factual |-> factual,
         rewards |-> rewards_of(o, s3, factual, n_rounds),
         random_ |-> advance(s3, n_rounds)]

context_offset(o) == 1

\* a variant of embed_offset that forgets the reserved slot
embed_offset_unreserved(o) == o.n_unobserved_cat_dim - 1

embed_offset(o) == o.n_unobserved_cat_dim

\* the dict the call returns
bandit_feedback(o, f) ==
    LET n == f.n_rounds
        A == o.n_actions
        K == n_cat_per_dim
        D == o.n_cat_dim
    IN  [n_rounds |-> n,
         n_actions |-> A,
         action_context |->
             [a \in Ix(A) |-> slice_from(o.action_context_reg[a], context_offset(o), D)],
         action_embed |->
             [r \in Ix(n) |-> slice_from(f.action_embed[r], embed_offset(o), D)],
         context |-> f.contexts,
         action |-> f.actions,
         position |-> None,
         reward |-> f.rewards,
         expected_reward |-> f.q_x_a,
         q_x_e |-> [r \in Ix(n) |-> [k \in Ix(K) |->
                       slice_from(f.q_x_e[r][k], embed_offset(o), D)]],
         p_e_a |-> [a \in Ix(A) |-> [k \in Ix(K) |->
                       slice_from(o.p_e_a[a][k], embed_offset(o), D)]],
         pi_b |-> [r \in Ix(n) |-> [a \in Ix(A) |-> [j \in Ix(1) |-> f.pi_b[r][a]]]],
         pscore |-> [r \in Ix(n) |-> f.pi_b[r][f.actions[r]]]]

\* a variant of instance_after that builds the embedding model again
instance_after_redefined(o, f) ==
    define_action_embed([o EXCEPT !.random_ = f.random_])

\* what a call leaves of the instance: only its generator has moved
instance_after(o, f) == [o EXCEPT !.random_ = f.random_]

obtain_batch_bandit_feedback(i, n_rounds) ==
    /\ pc[i] = "ready"
    /\ Len(feedback[i]) < MaxCalls
    /\ n_rounds >= 1
    /\ LET f == frame_of(self[i], n_rounds)
       IN  /\ feedback' = [feedback EXCEPT ![i] = Append(@, bandit_feedback(self[i], f))]
           /\ frames' = [frames EXCEPT ![i] = Append(@, f)]
           /\ self' = [self EXCEPT ![i] = instance_after(@, f)]
    /\ UNCHANGED pc

\* ---------------------------------------------------------- specifications
\* one instance, asked for up to MaxCalls batches
Init ==
    /\ \E c \in Configs, s \in Seeds :
           self = [i \in Insts |-> [c EXCEPT !.random_state = s]]
    /\ pc = [i \in Insts |-> "new"]
    /\ feedback = [i \in Insts |-> <<>>]
    /\ frames = [i \in Insts |-> <<>>]

Next ==
    \/ post_init(1)
    \/ \E n \in {0} \cup Rounds : obtain_batch_bandit_feedback(1, n)

Spec == Init /\ [][Next]_vars

\* two instances of one configuration and one random_state, each asked for
\* one batch
InitTwin == Init

NextTwin ==
    \/ \E i \in Insts : post_init(i)
    \/ \E i \in Insts, n \in {0} \cup Rounds :
           Len(feedback[i]) = 0 /\ obtain_batch_bandit_feedback(i, n)

SpecTwin == InitTwin /\ [][NextTwin]_vars

\* ------------------------------------------------------------------ claims
Calls(i) == 1 .. Len(feedback[i])

Row(b, r) == [a \in Ix(b.n_actions) |-> b.pi_b[r][a][0]]

NonZero(b, r) == {a \in Ix(b.n_actions) : b.pi_b[r][a][0][1] # 0}

\* C1: in every returned batch, for every round, the probabilities pi_b
\* gives to the actions sum to 1, with and without deficient actions.
C1_PiBRowsSumToOne ==
    \A i \in Insts : \A c \in Calls(i) :
        LET b == feedback[i][c]
        IN  \A r \in Ix(b.n_rounds) : IsOne(RatSumTo(Row(b, r), b.n_actions))

C1_Witness ==
    \E c \in Calls(1) :
        LET b == feedback[1][c]
        IN  /\ self[1].n_deficient_actions > 0
            /\ \E r \in Ix(b.n_rounds) : \E a1, a2 \in NonZero(b, r) :
                   b.pi_b[r][a1][0] # b.pi_b[r][a2][0]

\* C2: with k > 0 deficient actions, in every round exactly n_actions - k
\* actions have non-zero probability, the other k have probability exactly
\* 0, and the supported actions of a round are those that rank highest in
\* that round's own Gumbel draws.
C2_SupportPerRound ==
    \A i \in Insts : \A c \in Calls(i) :
        LET b == feedback[i][c]
            g == frames[i][c].gumbel
            k == self[i].n_deficient_actions
        IN  k > 0 =>
              \A r \in Ix(b.n_rounds) :
                /\ Cardinality(NonZero(b, r)) = b.n_actions - k
                /\ \A a \in Ix(b.n_actions) \ NonZero(b, r) : b.pi_b[r][a][0] = Zero
                /\ NonZero(b, r) =
                     {a \in Ix(b.n_actions) :
                        Cardinality({x \in Ix(b.n_actions) : g[r][x] > g[r][a]})
                            < b.n_actions - k}

C2_Witness ==
    \E c \in Calls(1) :
        LET b == feedback[1][c]
        IN  /\ self[1].n_deficient_actions > 0
            /\ \E r1, r2 \in Ix(b.n_rounds) : NonZero(b, r1) # NonZero(b, r2)

Fixed(o) ==
    <<o.latent_cat_param, o.p_e_a, o.action_context_reg,
      o.n_cat_dim, o.n_unobserved_cat_dim, o.n_irrelevant_cat_dim>>

\* C4: construction adds one to each of the three dimension counters, once;
\* no later step changes latent_cat_param, p_e_a, action_context_reg or the
\* counters, and all bundles of one instance carry the same p_e_a and
\* action_context.
C4_FixedAfterConstruction ==
    [][\A i \in Insts :
          /\ (pc[i] = "new" /\ pc'[i] = "ready") =>
                /\ self'[i].n_cat_dim = self[i].n_cat_dim + 1
                /\ self'[i].n_unobserved_cat_dim = self[i].n_unobserved_cat_dim + 1
                /\ self'[i].n_irrelevant_cat_dim = self[i].n_irrelevant_cat_dim + 1
          /\ pc[i] = "ready" => Fixed(self'[i]) = Fixed(self[i])
          /\ \A c1, c2 \in 1 .. Len(feedback'[i]) :
                /\ feedback'[i][c1].p_e_a = feedback'[i][c2].p_e_a
                /\ feedback'[i][c1].action_context = feedback'[i][c2].action_context
      ]_vars

C4_Witness ==
    /\ Len(feedback[1]) = 2
    /\ feedback[1][1].context # feedback[1][2].context
    /\ feedback[1][1].p_e_a = feedback[1][2].p_e_a

\* C5: two successive batches of one instance with the same number of rounds
\* select their actions with different random draws and so log different
\* action vectors.
C5_FreshActionDraws ==
    \A i \in Insts : \A c \in Calls(i) :
        (c > 1 /\ feedback[i][c].n_rounds = feedback[i][c - 1].n_rounds) =>
            /\ frames[i][c].action_rvs # frames[i][c - 1].action_rvs
            /\ feedback[i][c].action # feedback[i][c - 1].action

C7_ExposedDimensions ==
    \A i \in Insts : \A c \in Calls(i) :
        LET b == feedback[i][c]
            f == frames[i][c]
            D == self[i].n_cat_dim - 1
            U == self[i].n_unobserved_cat_dim - 1
        IN  /\ \A r \in Ix(b.n_rounds) :
                 /\ DOMAIN b.action_embed[r] = Ix(D - U)
                 /\ \A j \in Ix(D - U) :
                        b.action_embed[r][j] = f.action_embed[r][U + 1 + j]
                 /\ \A k \in Ix(n_cat_per_dim) :
                        /\ DOMAIN b.q_x_e[r][k] = Ix(D - U)
                        /\ \A j \in Ix(D - U) :
                               b.q_x_e[r][k][j] = f.q_x_e[r][k][U + 1 + j]
            /\ \A a \in Ix(b.n_actions) :
                 /\ \A k \in Ix(n_cat_per_dim) :
                        /\ DOMAIN b.p_e_a[a][k] = Ix(D - U)
                        /\ \A j \in Ix(D - U) :
                               b.p_e_a[a][k][j] = self[i].p_e_a[a][k][U + 1 + j]
                 /\ DOMAIN b.action_context[a] = Ix(D)
                 /\ \A j \in Ix(D) :
                        b.action_context[a][j] = self[i].action_context_reg[a][j + 1]

C7_Witness ==
    \E c \in Calls(1) :
        /\ self[1].n_cat_dim - 1 = MaxCatDim
        /\ self[1].n_unobserved_cat_dim - 1 = MaxCatDim - 1
        /\ \E r \in Ix(feedback[1][c].n_rounds) :
               frames[1][c].action_embed[r][MaxCatDim]
                   # frames[1][c].action_embed[r][MaxCatDim - 1]

Relevant(o, w) ==
    [j \in Ix(o.n_cat_dim - o.n_irrelevant_cat_dim) |-> w[o.n_irrelevant_cat_dim + j]]

\* the weights are not negative, are 0 on the reserved slot and on the
\* irrelevant dimensions, and are the weights of both expected rewards
WeightsWellPlaced(i, c) ==
    LET b == feedback[i][c]
        f == frames[i][c]
        o == self[i]
        w == f.cat_dim_importance
    IN  /\ \A d \in Ix(o.n_cat_dim) :
               /\ w[d][1] >= 0
               /\ d < o.n_irrelevant_cat_dim => w[d] = Zero
        /\ \A r \in Ix(b.n_rounds) :
               /\ \A a \in Ix(b.n_actions) :
                      b.expected_reward[r][a] = dot(f.q_x_a_d[r][a], w, o.n_cat_dim)
               /\ f.expected_rewards_factual[r] =
                      dot([d \in Ix(o.n_cat_dim) |-> f.q_x_e[r][f.action_embed[r][d]][d]],
                          w, o.n_cat_dim)

\* C8 as claimed: for every accepted n_irrelevant_cat_dim in 0 .. n_cat_dim
\* the weights of the relevant dimensions sum to 1.
C8_WeightsSumToOne ==
    \A i \in Insts : \A c \in Calls(i) :
        /\ WeightsWellPlaced(i, c)
        /\ IsOne(RatSumTo(Relevant(self[i], frames[i][c].cat_dim_importance),
                          self[i].n_cat_dim - self[i].n_irrelevant_cat_dim))

\* C8 as amended: the weights of the relevant dimensions sum to 1 when
\* n_irrelevant_cat_dim < n_cat_dim; when n_irrelevant_cat_dim = n_cat_dim
\* no dimension is relevant and every weight is 0.
C8_WeightsSumToOneIfAnyRelevant ==
    \A i \in Insts : \A c \in Calls(i) :
        LET o == self[i]
            w == frames[i][c].cat_dim_importance
        IN  /\ WeightsWellPlaced(i, c)
            /\ IF o.n_irrelevant_cat_dim < o.n_cat_dim
               THEN IsOne(RatSumTo(Relevant(o, w), o.n_cat_dim - o.n_irrelevant_cat_dim))
               ELSE \A d \in Ix(o.n_cat_dim) : w[d] = Zero

C8_Witness ==
    \E c \in Calls(1) :
        LET o == self[1]
            w == frames[1][c].cat_dim_importance
        IN  /\ o.n_cat_dim - 1 = MaxCatDim
            /\ o.n_irrelevant_cat_dim = 1
            /\ \E d1, d2 \in Ix(o.n_cat_dim) : w[d1][1] > 0 /\ w[d2][1] > w[d1][1]

\* C9: the draws that pick the category of embedding dimension d are those
\* of a generator seeded with d: they depend on d and n_rounds only, and two
\* batches with the same number of rounds and the same actions realize the
\* same embeddings.
C9_EmbedDrawsSeededByDimension ==
    \A i \in Insts : \A c \in Calls(i) :
        LET f == frames[i][c]
            o == self[i]
        IN  /\ \A d \in Ix(o.n_cat_dim) :
                 /\ f.embed_rvs[d] = draws(check_random_state(d), f.n_rounds)
                 /\ \A r \in Ix(f.n_rounds) :
                        f.action_embed[r][d] =
                            argmax_flg([k \in Ix(n_cat_per_dim) |->
                                           o.p_e_a[f.actions[r]][k][d]],
                                       n_cat_per_dim,
                                       uniform_value(
                                           draws(check_random_state(d), f.n_rounds)[r]))
            /\ \A c2 \in Calls(i) :
                 (frames[i][c2].n_rounds = f.n_rounds /\ frames[i][c2].actions = f.actions)
                     => /\ frames[i][c2].action_embed = f.action_embed
                        /\ feedback[i][c2].action_embed = feedback[i][c].action_embed

C9_Witness ==
    /\ Len(feedback[1]) = 2
    /\ self[1].random_state # 0
    /\ self[1].beta # 0
    /\ frames[1][1].n_rounds = frames[1][2].n_rounds
    /\ frames[1][1].actions = frames[1][2].actions
    /\ frames[1][1].contexts # frames[1][2].contexts
    /\ \E r \in Ix(frames[1][1].n_rounds) : \E d \in Ix(self[1].n_cat_dim) :
           frames[1][1].action_embed[r][d] # 0

\* C10: pscore[r] is pi_b[r, action[r]] and is positive: the logged action
\* always has non-zero probability under pi_b.
C10_LoggedActionSupported ==
    \A i \in Insts : \A c \in Calls(i) :
        LET b == feedback[i][c]
        IN  \A r \in Ix(b.n_rounds) :
              /\ b.pscore[r] = b.pi_b[r][b.action[r]][0]
              /\ b.pscore[r][1] > 0

C10_Witness ==
    \E c \in Calls(1) :
        LET b == feedback[1][c]
        IN  /\ self[1].n_deficient_actions > 0
            /\ \E r \in Ix(b.n_rounds) :
                   /\ b.action[r] > 0
                   /\ \E a \in Ix(b.action[r]) : b.pi_b[r][a][0] = Zero

====
